---- MODULE Spec2Model ----
(***************************************************************************)
(* A model of two clippy lint passes:                                      *)
(*   - NewWithoutDefault (clippy_lints/src/new_without_default.rs), a late *)
(*     lint pass whose check_item inspects the methods of an impl block;   *)
(*   - CollapsibleIf (clippy_lints/src/collapsible_if.rs), an early lint   *)
(*     pass whose check_expr is called on every expression of the AST.     *)
(* SpecNWD runs check_item on one item; SpecCI runs one traversal of an    *)
(* expression tree, calling check_expr on every expression node.           *)
(***************************************************************************)
EXTENDS Integers, Sequences, FiniteSets, TLC

\* ------------------------------------------------------------------ bounds
\* Associated items per impl block.
MaxMethods == 2
\* Fields per type definition.
MaxFields == 2
\* Levels of `if` nesting in a checked expression.
MaxLevels == 3

VARIABLES
    pass,           \* which lint pass this behaviour runs: "nwd" or "ci"
    pc,             \* "idle" before the callback has run, "done" after
    \* --- NewWithoutDefault: the compiler's facts (inputs) ---
    item,           \* the hir::Item handed to check_item
    self_ty,        \* tcx.type_of(parent of the method): the enclosing type
    default_trait,  \* answer of get_trait_def_id(cx, &paths::DEFAULT_TRAIT)
    implsDefault,   \* the types for which implements_trait answers true
    \* --- NewWithoutDefault: what the pass did ---
    findings,       \* the lints emitted through span_lint_and_then, in order
    queries,        \* the trait-oracle queries and emissions, in order
    \* --- CollapsibleIf ---
    tree,           \* the expression the traversal walks
    pending,        \* expression nodes still to be visited, in pre-order
    lints           \* the lints emitted by check_expr, in order

vars == <<pass, pc, item, self_ty, default_trait, implsDefault, findings,
          queries, tree, pending, lints>>

nwdVars == <<item, self_ty, default_trait, implsDefault, findings, queries>>
ciVars == <<tree, pending, lints>>

\* Option<T>
None == [some |-> FALSE]
Some(v) == [some |-> TRUE, val |-> v]

\* ===================================================== new_without_default

\* The lints this pass declares.
NEW_WITHOUT_DEFAULT == "NEW_WITHOUT_DEFAULT"
NEW_WITHOUT_DEFAULT_DERIVE == "NEW_WITHOUT_DEFAULT_DERIVE"

\* The name of the enclosing type of every impl block of the model.
SelfName == "Foo"

\* Type of the i-th field of the enclosing type.
FieldTy(i) == "F" \o ToString(i)

\* impl_item.span, item.span and tcx.def_span(adt_def.did)
ImplItemSpan(i) == [of |-> "impl_item", id |-> i]
ItemSpan == [of |-> "item", id |-> 0]
DefSpan(ty) == [of |-> "adt_def", id |-> 0]

\* The enclosing types: structs and enums with up to MaxFields fields, and a
\* type that is no ADT at all.
SelfTys ==
    { [name |-> SelfName, sty |-> k, fields |-> [i \in 1..n |-> FieldTy(i)]] :
        k \in {"struct", "enum"}, n \in 0..MaxFields }
    \cup { [name |-> SelfName, sty |-> "tuple", fields |-> <<>>] }

\* `fn new() -> Self`, public, in an inherent impl: the method the lint is about.
BaseMethod ==
    [kind |-> "Method", has_self |-> FALSE, ext_macro |-> FALSE,
     constness |-> "NotConst", generics |-> <<>>, inputs |-> 0,
     name |-> "new", reachable |-> TRUE, ret |-> SelfName]

\* BaseMethod and every item that differs from it in one respect other than
\* its name.
AssocShapes ==
    { BaseMethod,
      [BaseMethod EXCEPT !.kind = "Const"],
      [BaseMethod EXCEPT !.has_self = TRUE, !.inputs = 1],
      [BaseMethod EXCEPT !.ext_macro = TRUE],
      [BaseMethod EXCEPT !.constness = "Const"],
      [BaseMethod EXCEPT !.generics = <<"Type">>],
      [BaseMethod EXCEPT !.generics = <<"Lifetime">>],
      [BaseMethod EXCEPT !.generics = <<"Lifetime", "Type">>],
      [BaseMethod EXCEPT !.inputs = 1],
      [BaseMethod EXCEPT !.reachable = FALSE],
      [BaseMethod EXCEPT !.ret = "Other"] }

\* The associated items of the model: each shape, named new or not ("other"
\* stands for any name but new).
AssocItems == { [s EXCEPT !.name = n] : s \in AssocShapes, n \in {"new", "other"} }

SeqsUpTo(S, n) == UNION { [1..k -> S] : k \in 0..n }

\* The items check_item is called on: inherent impls with up to MaxMethods
\* associated items, of which at most one is named new (the items of an impl
\* have different names), and a trait impl and a non-impl item.
Items ==
    { [node |-> "Impl", of_trait |-> FALSE, items |-> ms] :
        ms \in { q \in SeqsUpTo(AssocItems, MaxMethods) :
                   Cardinality({ i \in 1..Len(q) : q[i].name = "new" }) <= 1 } }
    \cup { [node |-> "Impl", of_trait |-> TRUE, items |-> <<BaseMethod>>],
           [node |-> "Fn", of_trait |-> FALSE, items |-> <<>>] }

\* --- the external oracles, answered from the compiler's facts ---

\* utils::implements_trait(cx, ty, default_trait_id, &[])
implements_trait(ty) == ty \in implsDefault

\* utils::same_tys(cx, a, b)
same_tys(a, b) == a = b

\* One entry of the call trace of check_item: a query to the trait oracle
\* (get_trait_def_id, implements_trait), a call of can_derive_default or an
\* emission (emit), made while method i is inspected, about ty, with its
\* answer.
Query(i, q, ty, ans) == [method |-> i, q |-> q, ty |-> ty, ans |-> ans]

\* create_new_without_default_suggest_msg
create_new_without_default_suggest_msg(ty) ==
    "impl Default for " \o ty \o " {\n    fn default() -> Self {\n        Self::new()\n    }\n}"

\* The field loop of can_derive_default, from field k on: the first field
\* whose type does not implement the trait ends it with None.
RECURSIVE can_derive_fields(_, _, _, _)
can_derive_fields(ty, k, i, qs) ==
    IF k > Len(ty.fields) THEN [ret |-> Some(DefSpan(ty)), qs |-> qs]
    ELSE LET f_ty == ty.fields[k]
             qs1 == Append(qs, Query(i, "implements_trait", f_ty, implements_trait(f_ty)))
         IN  IF ~implements_trait(f_ty) THEN [ret |-> None, qs |-> qs1]
             ELSE can_derive_fields(ty, k + 1, i, qs1)

\* The guard taken to hold of every ADT.
StructGuardDropped(ty) == ty.sty \in {"struct", "enum"}

\* `ty::Adt(adt_def, substs) if adt_def.is_struct()`
is_struct_adt(ty) == ty.sty = "struct"

\* can_derive_default(ty, cx, default_trait_id), called while method i is
\* inspected, with qs the queries made so far.
can_derive_default(ty, i, qs) ==
    IF is_struct_adt(ty) THEN can_derive_fields(ty, 1, i, qs)
    ELSE [ret |-> None, qs |-> qs]

\* The lint emitted when Default can be derived (the message is written
\* without the backquotes the source puts around Default and the type).
DeriveFinding(i, sp) ==
    [lint |-> NEW_WITHOUT_DEFAULT_DERIVE,
     span |-> ImplItemSpan(i),
     msg |-> "you should consider deriving a Default implementation for "
             \o self_ty.name,
     sugg |-> [how |-> "suggest_item_with_attr", span |-> sp, help |-> "try this",
               text |-> "#[derive(Default)]",
               applicability |-> "MaybeIncorrect"]]

\* The lint emitted when Default has to be written by hand.
ManualFinding(i) ==
    [lint |-> NEW_WITHOUT_DEFAULT,
     span |-> ImplItemSpan(i),
     msg |-> "you should consider adding a Default implementation for "
             \o self_ty.name,
     sugg |-> [how |-> "suggest_prepend_item", span |-> ItemSpan, help |-> "try this",
               text |-> create_new_without_default_suggest_msg(self_ty.name),
               applicability |-> "MaybeIncorrect"]]

\* The state check_item threads through its loop.
Acc(ctl, fs, qs) == [ctl |-> ctl, findings |-> fs, queries |-> qs]

\* The if_chain of check_item after its first condition, and its `then`
\* block, for method i.
trait_chain(i, acc) ==
    LET q1 == Append(acc.queries, Query(i, "get_trait_def_id", "Default", default_trait)) IN
    IF ~default_trait.some THEN Acc("next", acc.findings, q1)
    ELSE
    LET q2 == Append(q1, Query(i, "implements_trait", self_ty.name,
                                implements_trait(self_ty.name))) IN
    IF implements_trait(self_ty.name) THEN Acc("next", acc.findings, q2)
    ELSE
    LET d == can_derive_default(self_ty, i, q2)
        q3 == Append(d.qs, Query(i, "can_derive_default", self_ty.name, d.ret))
    IN
    IF d.ret.some
    THEN Acc("next", Append(acc.findings, DeriveFinding(i, d.ret.val)),
             Append(q3, Query(i, "emit", self_ty.name, NEW_WITHOUT_DEFAULT_DERIVE)))
    ELSE Acc("next", Append(acc.findings, ManualFinding(i)),
             Append(q3, Query(i, "emit", self_ty.name, NEW_WITHOUT_DEFAULT)))

\* The if_chain without its same_tys condition.
ReturnTypeIgnored(i, m, acc) == trait_chain(i, acc)

\* The if_chain of check_item, for method i.
if_chain(i, m, acc) ==
    IF ~same_tys(self_ty.name, m.ret) THEN Acc("next", acc.findings, acc.queries)
    ELSE trait_chain(i, acc)

\* The condition without `sig.decl.inputs.is_empty()`.
ParamsIgnored(m) == m.name = "new" /\ m.reachable

\* `sig.decl.inputs.is_empty() && name == "new" && cx.access_levels.is_reachable(id)`
is_new_candidate(m) == m.inputs = 0 /\ m.name = "new" /\ m.reachable

\* The early exits without the one for a const fn.
ConstNotSkipped(m) ==
    IF m.ext_macro THEN "return"
    ELSE IF \E g \in 1..Len(m.generics) : m.generics[g] = "Type" THEN "return"
    ELSE "none"

\* The three early exits of the loop body: what the body does with a method
\* without self that is in an external macro, const, or generic over a type.
\* "return" leaves check_item, "none" goes on with the method.
early_exit(m) ==
    IF m.ext_macro THEN "return"
    ELSE IF m.constness = "Const" THEN "return"
    ELSE IF \E g \in 1..Len(m.generics) : m.generics[g] = "Type" THEN "return"
    ELSE "none"

\* The body of `for assoc_item in items`, for the i-th associated item.
loop_body(i, acc) ==
    LET m == item.items[i] IN
    IF ~(m.kind = "Method" /\ ~m.has_self) THEN Acc("next", acc.findings, acc.queries)
    ELSE IF early_exit(m) = "return" THEN Acc("return", acc.findings, acc.queries)
    ELSE IF is_new_candidate(m) THEN if_chain(i, m, acc)
    ELSE Acc("next", acc.findings, acc.queries)

\* `for assoc_item in items`, from the i-th item on.
RECURSIVE for_assoc_items(_, _)
for_assoc_items(i, acc) ==
    IF i > Len(item.items) THEN acc
    ELSE LET r == loop_body(i, acc) IN
         IF r.ctl = "return" THEN r ELSE for_assoc_items(i + 1, r)

\* NewWithoutDefault::check_item: what it emits and asks on `item`.
check_item_result ==
    IF item.node = "Impl" /\ ~item.of_trait
    THEN for_assoc_items(1, Acc("next", <<>>, <<>>))
    ELSE Acc("next", <<>>, <<>>)

\* The traversal calls check_item on the item.
check_item ==
    /\ pass = "nwd"
    /\ pc = "idle"
    /\ findings' = check_item_result.findings
    /\ queries' = check_item_result.queries
    /\ pc' = "done"
    /\ UNCHANGED <<pass, item, self_ty, default_trait, implsDefault, ciVars>>

InitNWD ==
    /\ pass = "nwd"
    /\ pc = "idle"
    /\ item \in Items
    /\ self_ty \in SelfTys
    /\ default_trait \in {None, Some("core::default::Default")}
    /\ implsDefault \in SUBSET ({self_ty.name} \cup {self_ty.fields[k] : k \in 1..Len(self_ty.fields)})
    /\ findings = <<>>
    /\ queries = <<>>
    /\ tree = None
    /\ pending = <<>>
    /\ lints = <<>>

NextNWD == check_item

SpecNWD == InitNWD /\ [][NextNWD]_vars

\* ------------------------------------------- properties of check_item

\* check_item has run on an inherent impl.
DoneNWD == pass = "nwd" /\ pc = "done"
Methods == 1..Len(item.items)
Inherent == item.node = "Impl" /\ ~item.of_trait

\* The findings reported at method i.
FindingsFor(i) == SelectSeq(findings, LAMBDA f : f.span = ImplItemSpan(i))

HasTypeParam(m) == \E g \in 1..Len(m.generics) : m.generics[g] = "Type"

\* A constructor candidate: a method without self, not const, without
\* generic type parameter and without parameters, named new, reachable, not
\* from an external macro, returning the enclosing type.
IsConstructorCandidate(m) ==
    /\ m.kind = "Method" /\ ~m.has_self
    /\ ~m.ext_macro
    /\ m.constness # "Const"
    /\ ~HasTypeParam(m)
    /\ m.inputs = 0 /\ m.name = "new" /\ m.reachable
    /\ m.ret = self_ty.name

\* The Default trait resolves and the enclosing type does not implement it.
LacksDefault == default_trait.some /\ self_ty.name \notin implsDefault

\* The enclosing type is a struct all of whose fields implement Default.
AllFieldsDefault ==
    /\ self_ty.sty = "struct"
    /\ \A k \in 1..Len(self_ty.fields) : self_ty.fields[k] \in implsDefault

\* C1: every constructor candidate of an inherent impl whose enclosing type
\* lacks Default gets a finding, whatever its sibling methods are.
C1_EveryCandidateReported ==
    (DoneNWD /\ Inherent) =>
        \A i \in Methods :
            (IsConstructorCandidate(item.items[i]) /\ LacksDefault)
                => Len(FindingsFor(i)) >= 1

\* What does hold of the code: a candidate gets its finding when no method
\* before it is one that ends check_item.
ReachedCandidateReported ==
    (DoneNWD /\ Inherent) =>
        \A i \in Methods :
            ( /\ IsConstructorCandidate(item.items[i]) /\ LacksDefault
              /\ \A j \in 1..(i - 1) :
                    LET s == item.items[j] IN
                    ~(s.kind = "Method" /\ ~s.has_self
                      /\ (s.ext_macro \/ s.constness = "Const" \/ HasTypeParam(s))) )
                => Len(FindingsFor(i)) = 1

\* C2: no finding for a method that is generic over a type, const, not
\* reachable, or whose return type is not the enclosing type, whatever the
\* trait oracle answers.
C2_SkippedMethodsSilent ==
    DoneNWD =>
        \A i \in Methods :
            LET m == item.items[i] IN
            (HasTypeParam(m) \/ m.constness = "Const" \/ ~m.reachable
             \/ m.ret # self_ty.name)
                => FindingsFor(i) = <<>>

\* Witness of C2: check_item ran on an impl whose only method is a private
\* new() -> Self, the type lacks Default, and nothing was reported.
C2_Witness ==
    /\ DoneNWD /\ Inherent /\ LacksDefault
    /\ item.items = <<[BaseMethod EXCEPT !.reachable = FALSE]>>
    /\ findings = <<>>

\* The finding C3 expects at method i.
ExpectedFinding(i) ==
    IF AllFieldsDefault
    THEN [lint |-> NEW_WITHOUT_DEFAULT_DERIVE, span |-> ImplItemSpan(i),
          msg |-> "you should consider deriving a Default implementation for Foo",
          sugg |-> [how |-> "suggest_item_with_attr", span |-> DefSpan(self_ty),
                    help |-> "try this", text |-> "#[derive(Default)]",
                    applicability |-> "MaybeIncorrect"]]
    ELSE [lint |-> NEW_WITHOUT_DEFAULT, span |-> ImplItemSpan(i),
          msg |-> "you should consider adding a Default implementation for Foo",
          sugg |-> [how |-> "suggest_prepend_item", span |-> ItemSpan,
                    help |-> "try this",
                    text |-> "impl Default for Foo {\n    fn default() -> Self {\n        Self::new()\n    }\n}",
                    applicability |-> "MaybeIncorrect"]]

\* C3: a constructor candidate whose enclosing type lacks Default gets
\* exactly one finding: the derive finding if can_derive_default gives a
\* span, else the manual-impl finding, both MaybeIncorrect.
C3_ExactlyOneFinding ==
    (DoneNWD /\ Inherent) =>
        \A i \in Methods :
            (IsConstructorCandidate(item.items[i]) /\ LacksDefault)
                => FindingsFor(i) = <<ExpectedFinding(i)>>

\* What does hold of the code: the one finding of C3 for a candidate that
\* no earlier method keeps check_item from reaching, and never two findings.
ReachedCandidateOneFinding ==
    (DoneNWD /\ Inherent) =>
        \A i \in Methods :
            /\ Len(FindingsFor(i)) <= 1
            /\ FindingsFor(i) # <<>> => FindingsFor(i) = <<ExpectedFinding(i)>>

\* C4: can_derive_default gives the span of the type's definition exactly
\* for a struct all of whose fields implement Default (a struct without
\* fields included) and None for every other type.
C4_DerivableIffStructAllFields ==
    \A n \in 1..Len(queries) :
        queries[n].q = "can_derive_default" =>
            /\ AllFieldsDefault => queries[n].ans = Some(DefSpan(self_ty))
            /\ ~AllFieldsDefault => queries[n].ans = None

\* Witness of C4: a struct whose first field implements Default and whose
\* last field does not was found not derivable.
C4_Witness ==
    /\ DoneNWD
    /\ self_ty.sty = "struct" /\ Len(self_ty.fields) >= 2
    /\ self_ty.fields[1] \in implsDefault
    /\ self_ty.fields[Len(self_ty.fields)] \notin implsDefault
    /\ \E n \in 1..Len(queries) :
          queries[n].q = "can_derive_default" /\ queries[n].ans = None

\* A struct without fields was found derivable.
C4_ZeroFieldsDerivable ==
    /\ DoneNWD
    /\ self_ty.sty = "struct" /\ self_ty.fields = <<>>
    /\ \E n \in 1..Len(queries) :
          queries[n].q = "can_derive_default" /\ queries[n].ans.some

\* Entry n of the call trace comes after an entry of the same method that
\* asked q about ty.
Earlier(n, q, ty) ==
    { k \in 1..(n - 1) :
        /\ queries[k].method = queries[n].method
        /\ queries[k].q = q
        /\ queries[k].ty = ty }

\* C9: the trait oracle is asked in a fixed order and never speculatively:
\* the trait identity only for a method that passed every candidate check,
\* implements_trait on the enclosing type only once the identity resolved,
\* the fields only once that answer was false, a finding only after that
\* answer; an unresolved identity ends the inspection of the method.
C9_OracleOrder ==
    /\ \A n \in 1..Len(queries) :
        LET e == queries[n] IN
        /\ e.q = "get_trait_def_id" =>
              /\ Inherent
              /\ IsConstructorCandidate(item.items[e.method])
              /\ Earlier(n, "get_trait_def_id", "Default") = {}
        /\ (e.q = "implements_trait" /\ e.ty = self_ty.name) =>
              \E k \in Earlier(n, "get_trait_def_id", "Default") : queries[k].ans.some
        /\ (e.q = "implements_trait" /\ e.ty # self_ty.name) =>
              \E k \in Earlier(n, "implements_trait", self_ty.name) : queries[k].ans = FALSE
        /\ e.q \in {"can_derive_default", "emit"} =>
              \E k \in Earlier(n, "implements_trait", self_ty.name) : queries[k].ans = FALSE
        /\ (e.q = "get_trait_def_id" /\ ~e.ans.some) =>
              /\ \A k \in (n + 1)..Len(queries) : queries[k].method # e.method
              /\ FindingsFor(e.method) = <<>>
    /\ \A i \in Methods :
        FindingsFor(i) # <<>> =>
            \E n \in 1..Len(queries) : queries[n].method = i /\ queries[n].q = "emit"

\* Witness of C9: the trait resolved, the type lacks it, its two fields were
\* asked, and the finding came last.
C9_Witness ==
    /\ DoneNWD
    /\ Len(self_ty.fields) = 2
    /\ Len(queries) = 6
    /\ queries[1].q = "get_trait_def_id" /\ queries[1].ans.some
    /\ queries[2].q = "implements_trait" /\ queries[2].ty = self_ty.name
    /\ queries[3].q = "implements_trait" /\ queries[3].ty = self_ty.fields[1]
    /\ queries[4].q = "implements_trait" /\ queries[4].ty = self_ty.fields[2]
    /\ queries[5].q = "can_derive_default"
    /\ queries[6].q = "emit"
    /\ Len(findings) = 1

\* C10: a method with a parameter gets no finding, even a public non-const
\* non-generic new returning a type that lacks Default: every finding is at
\* a method without parameters.
C10_ParamsNoFinding ==
    DoneNWD =>
        /\ \A i \in Methods : item.items[i].inputs >= 1 => FindingsFor(i) = <<>>
        /\ \A n \in 1..Len(findings) :
              \E i \in Methods :
                 findings[n].span = ImplItemSpan(i) /\ item.items[i].inputs = 0

\* Witness of C10: check_item ran on an impl whose only method is a public
\* new(x) -> Self, the type lacks Default, and nothing was reported.
C10_Witness ==
    /\ DoneNWD /\ Inherent /\ LacksDefault
    /\ item.items = <<[BaseMethod EXCEPT !.inputs = 1]>>
    /\ findings = <<>>

\* ========================================================== collapsible_if

COLLAPSIBLE_IF == "COLLAPSIBLE_IF"

\* The messages of the two lints (the first without the backquotes the
\* source puts around `else { if .. }`).
ElseMsg == "this else { if .. } block can be collapsed"
NestedMsg == "this if statement can be collapsed"

\* The root syntax context: code that no macro expanded.
RootCtxt == "root"
\* The syntax context of the code one macro invocation expanded to.
MacroCtxt == "macro"

\* A span: the node it covers, its syntax context, and whether the code it
\* covers was expanded from a macro (what in_macro answers for it): code in
\* the root context was not.
Span(what, k, ctxt) == [id |-> <<what, k>>, ctxt |-> ctxt, expanded |-> ctxt # RootCtxt]

\* The condition (or scrutinee) of the `if` at level k of the chain, with
\* the operator at its top.
Cond(k) ==
    CASE k = 1 -> [node |-> "Path", span |-> Span("cond", k, RootCtxt), text |-> "x", op |-> "none"]
      [] k = 2 -> [node |-> "Path", span |-> Span("cond", k, RootCtxt), text |-> "y", op |-> "none"]
      [] k = 3 -> [node |-> "Binary", span |-> Span("cond", k, RootCtxt), text |-> "a || b", op |-> "||"]
      [] OTHER -> [node |-> "Binary", span |-> Span("cond", k, RootCtxt), text |-> "c == d", op |-> "=="]

\* Statements: `z();`, `let v = w;`, and an expression with or without `;`.
CallStmt(k) ==
    [node |-> "Semi",
     expr |-> [node |-> "Call", span |-> Span("call", k, RootCtxt), text |-> "z()"]]
LocalStmt(k) ==
    [node |-> "Local",
     expr |-> [node |-> "Path", span |-> Span("init", k, RootCtxt), text |-> "w", op |-> "none"]]
ExprStmt(e) == [node |-> "Expr", expr |-> e]
SemiStmt(e) == [node |-> "Semi", expr |-> e]

\* ast::Block
Block(what, k, stmts) == [stmts |-> stmts, span |-> Span(what, k, RootCtxt)]

\* ast::ExprKind::Block: its span is the block's.
BlockExpr(b) == [node |-> "Block", span |-> b.span, block |-> b]

\* ast::ExprKind::If and ast::ExprKind::IfLet at level k.
IfExpr(l, k, then, els) ==
    [node |-> l.kind, span |-> Span("if", k, l.ctxt), check |-> Cond(k),
     then |-> then, els |-> els]

\* How the `if` of one level holds the `if` of the next level.
Links ==
    { "else_block",       \* if c {} else { NEXT }
      "else_block_semi",  \* if c {} else { NEXT; }
      "else_block_two",   \* if c {} else { NEXT z(); }
      "else_if",          \* if c {} else NEXT
      "then",             \* if c { NEXT }
      "then_semi",        \* if c { NEXT; }
      "then_two",         \* if c { NEXT z(); }
      "then_and_else" }   \* if c { NEXT } else { z(); }

\* The `if` of the last level.
TailLinks ==
    { "tail_empty",       \* if c {}
      "tail_call",        \* if c { z(); }
      "tail_let" }        \* if c { let v = w; }

\* Kind and syntax context of the `if` of one level.
Heads ==
    { [kind |-> "If", ctxt |-> RootCtxt], [kind |-> "IfLet", ctxt |-> RootCtxt],
      [kind |-> "If", ctxt |-> MacroCtxt] }

Levels(links) == { [kind |-> h.kind, ctxt |-> h.ctxt, link |-> ln] : h \in Heads, ln \in links }

\* The shapes of the checked expressions: chains of 1..MaxLevels `if`s.
Chains ==
    UNION { { ls \in [1..n -> Levels(Links \cup TailLinks)] :
                /\ ls[n].link \in TailLinks
                /\ \A k \in 1..(n - 1) : ls[k].link \in Links } : n \in 1..MaxLevels }

\* The expression of the chain ls from level k on.
RECURSIVE Build(_, _)
Build(ls, k) ==
    LET l == ls[k]
        nxt == Build(ls, k + 1)
        none == Block("then", k, <<>>)
        other == Some(BlockExpr(Block("else", k, <<CallStmt(k)>>)))
    IN  CASE l.link = "else_block" ->
               IfExpr(l, k, none, Some(BlockExpr(Block("else", k, <<ExprStmt(nxt)>>))))
          [] l.link = "else_block_semi" ->
               IfExpr(l, k, none, Some(BlockExpr(Block("else", k, <<SemiStmt(nxt)>>))))
          [] l.link = "else_block_two" ->
               IfExpr(l, k, none, Some(BlockExpr(Block("else", k, <<ExprStmt(nxt), CallStmt(k)>>))))
          [] l.link = "else_if" -> IfExpr(l, k, none, Some(nxt))
          [] l.link = "then" -> IfExpr(l, k, Block("then", k, <<ExprStmt(nxt)>>), None)
          [] l.link = "then_semi" -> IfExpr(l, k, Block("then", k, <<SemiStmt(nxt)>>), None)
          [] l.link = "then_two" ->
               IfExpr(l, k, Block("then", k, <<ExprStmt(nxt), CallStmt(k)>>), None)
          [] l.link = "then_and_else" ->
               IfExpr(l, k, Block("then", k, <<ExprStmt(nxt)>>), other)
          [] l.link = "tail_empty" -> IfExpr(l, k, none, None)
          [] l.link = "tail_call" -> IfExpr(l, k, Block("then", k, <<CallStmt(k)>>), None)
          [] l.link = "tail_let" -> IfExpr(l, k, Block("then", k, <<LocalStmt(k)>>), None)

IsIf(e) == e.node \in {"If", "IfLet"}

\* The source text a span covers.
RECURSIVE SourceText(_)
RECURSIVE StmtsText(_, _)
BlockText(b) ==
    IF b.stmts = <<>> THEN "{}" ELSE "{" \o StmtsText(b.stmts, 1) \o " }"
StmtsText(stmts, k) ==
    IF k > Len(stmts) THEN ""
    ELSE LET s == stmts[k]
             t == CASE s.node = "Expr" -> SourceText(s.expr)
                    [] s.node = "Semi" -> SourceText(s.expr) \o ";"
                    [] s.node = "Local" -> "let v = " \o SourceText(s.expr) \o ";"
         IN  " " \o t \o StmtsText(stmts, k + 1)
SourceText(e) ==
    CASE e.node = "If" ->
           "if " \o SourceText(e.check) \o " " \o BlockText(e.then)
           \o (IF e.els.some THEN " else " \o SourceText(e.els.val) ELSE "")
      [] e.node = "IfLet" ->
           "if let Some(v) = " \o SourceText(e.check) \o " " \o BlockText(e.then)
           \o (IF e.els.some THEN " else " \o SourceText(e.els.val) ELSE "")
      [] e.node = "Block" -> BlockText(e.block)
      [] OTHER -> e.text

\* The expressions of a tree in the order the AST visitor reaches them.
RECURSIVE PreOrder(_)
RECURSIVE StmtsPreOrder(_, _)
StmtsPreOrder(stmts, k) ==
    IF k > Len(stmts) THEN <<>>
    ELSE PreOrder(stmts[k].expr) \o StmtsPreOrder(stmts, k + 1)
PreOrder(e) ==
    CASE IsIf(e) ->
           <<e>> \o PreOrder(e.check) \o StmtsPreOrder(e.then.stmts, 1)
           \o (IF e.els.some THEN PreOrder(e.els.val) ELSE <<>>)
      [] e.node = "Block" -> <<e>> \o StmtsPreOrder(e.block.stmts, 1)
      [] OTHER -> <<e>>

\* utils::in_macro(span)
in_macro(span) == span.expanded

\* utils::snippet_block(cx, span, ".."), for the span of an expression and
\* for the span of a block: the source text the span covers.
snippet_block(e) == SourceText(e)
snippet_of_block(b) == BlockText(b)

\* Sugg::ast(cx, expr, "..") keeps the text and the operator at its top;
\* Sugg::and puts parentheses around a side whose operator binds weaker
\* than `&&`.
BindsWeakerThanAnd(op) == op \in {"||", "=", ".."}
SuggAst(e) == [text |-> snippet_block(e), op |-> e.op]
SuggParen(s) == IF BindsWeakerThanAnd(s.op) THEN "(" \o s.text \o ")" ELSE s.text
SuggAnd(lhs, rhs) == SuggParen(lhs) \o " && " \o SuggParen(rhs)

\* expr_block without the test that no second statement follows.
FirstStmt(block) ==
    IF Len(block.stmts) >= 1
    THEN IF block.stmts[1].node \in {"Expr", "Semi"}
         THEN Some(block.stmts[1].expr)
         ELSE None
    ELSE None

\* expr_block
expr_block(block) ==
    IF Len(block.stmts) = 1
    THEN IF block.stmts[1].node \in {"Expr", "Semi"}
         THEN Some(block.stmts[1].expr)
         ELSE None
    ELSE None

\* The match narrowed to an If without else.
OnlyElseLessIf(e) == e.node = "If" /\ ~e.els.some

\* `ast::ExprKind::If(..) | ast::ExprKind::IfLet(..)` in
\* check_collapsible_maybe_if_let
is_collapsible_inner(e) == IsIf(e)

\* check_collapsible_maybe_if_let: the lints it emits for the else branch.
check_collapsible_maybe_if_let(else_) ==
    IF else_.node # "Block" THEN <<>>
    ELSE LET block == else_.block
             inner == expr_block(block)
         IN  IF ~inner.some THEN <<>>
             ELSE IF in_macro(inner.val.span) THEN <<>>
             ELSE IF is_collapsible_inner(inner.val)
             THEN << [lint |-> COLLAPSIBLE_IF, span |-> block.span,
                      msg |-> ElseMsg,
                      sugg |-> [span |-> block.span, help |-> "try",
                                text |-> snippet_block(inner.val),
                                applicability |-> "Unspecified"]] >>
             ELSE <<>>

\* The pattern with any else branch in place of None.
AnyIf(e) == e.node = "If"

\* `let ast::ExprKind::If(ref check_inner, ref content, None) = inner.node`
is_else_less_if(e) == e.node = "If" /\ ~e.els.some

\* The test taken never to fail.
CtxtIgnored(a, b) == TRUE

\* The test `expr.span.ctxt() != inner.span.ctxt()` lets through
same_ctxt(a, b) == a.ctxt = b.ctxt

\* check_collapsible_no_if_let: the lints it emits for an `if` without else.
check_collapsible_no_if_let(expr, check, then) ==
    LET inner == expr_block(then) IN
    IF ~inner.some THEN <<>>
    ELSE IF ~is_else_less_if(inner.val) THEN <<>>
    ELSE IF ~same_ctxt(expr.span, inner.val.span) THEN <<>>
    ELSE << [lint |-> COLLAPSIBLE_IF, span |-> expr.span,
             msg |-> NestedMsg,
             sugg |-> [span |-> expr.span, help |-> "try",
                       text |-> "if " \o SuggAnd(SuggAst(check), SuggAst(inner.val.check))
                                \o " " \o snippet_of_block(inner.val.then),
                       applicability |-> "MachineApplicable"]] >>

\* check_if
check_if(expr) ==
    CASE expr.node = "If" ->
           IF expr.els.some THEN check_collapsible_maybe_if_let(expr.els.val)
           ELSE check_collapsible_no_if_let(expr, expr.check, expr.then)
      [] expr.node = "IfLet" /\ expr.els.some ->
           check_collapsible_maybe_if_let(expr.els.val)
      [] OTHER -> <<>>

\* CollapsibleIf::check_expr: the lints it emits for expr.
check_expr_lints(expr) == IF ~in_macro(expr.span) THEN check_if(expr) ELSE <<>>

\* The AST visitor reaches the next expression and calls check_expr on it.
check_expr ==
    /\ pass = "ci"
    /\ pending # <<>>
    /\ lints' = lints \o check_expr_lints(Head(pending))
    /\ pending' = Tail(pending)
    /\ pc' = IF Tail(pending) = <<>> THEN "done" ELSE "walk"
    /\ UNCHANGED <<pass, tree, nwdVars>>

InitCI ==
    /\ pass = "ci"
    /\ pc = "walk"
    /\ \E ls \in Chains : tree = Build(ls, 1)
    /\ pending = PreOrder(tree)
    /\ lints = <<>>
    /\ item = [node |-> "Fn", of_trait |-> FALSE, items |-> <<>>]
    /\ self_ty = [name |-> SelfName, sty |-> "tuple", fields |-> <<>>]
    /\ default_trait = None
    /\ implsDefault = {}
    /\ findings = <<>>
    /\ queries = <<>>

NextCI == check_expr

SpecCI == InitCI /\ [][NextCI]_vars

\* ------------------------------------------- properties of check_expr

\* The traversal has called check_expr on every expression of the tree.
DoneCI == pass = "ci" /\ pc = "done"

\* The expressions of the tree, in visiting order.
Visited == PreOrder(tree)
NoMacro == LET v == Visited IN \A n \in 1..Len(v) : ~v[n].span.expanded

ElseLints == SelectSeq(lints, LAMBDA l : l.msg = ElseMsg)
NestedLints == SelectSeq(lints, LAMBDA l : l.msg = NestedMsg)
SpansOf(ls) == { ls[n].span : n \in 1..Len(ls) }

\* The block holds one statement, an expression with or without `;`, and
\* that expression is an if or if-let.
HoldsOnlyAnIf(b) ==
    /\ Len(b.stmts) = 1
    /\ b.stmts[1].node \in {"Expr", "Semi"}
    /\ b.stmts[1].expr.node \in {"If", "IfLet"}

\* The else-blocks of the tree that hold only an if-expression.
CollapsibleElseBlocks ==
    LET v == Visited IN
    { v[n].els.val.span : n \in
        { k \in 1..Len(v) :
            /\ v[k].node \in {"If", "IfLet"}
            /\ v[k].els.some
            /\ v[k].els.val.node = "Block"
            /\ HoldsOnlyAnIf(v[k].els.val.block) } }

PlainIf == [kind |-> "If", ctxt |-> RootCtxt]
Level(h, link) == [kind |-> h.kind, ctxt |-> h.ctxt, link |-> link]

\* if x {} else { if y {} else { if a || b {} } }
ElseChainExample ==
    Build(<<Level(PlainIf, "else_block"), Level(PlainIf, "else_block"),
            Level(PlainIf, "tail_empty")>>, 1)

\* if x { if y { z(); } }
NestedExample == Build(<<Level(PlainIf, "then"), Level(PlainIf, "tail_call")>>, 1)

\* if x {} else { if y { z(); } }
ElseExample == Build(<<Level(PlainIf, "else_block"), Level(PlainIf, "tail_call")>>, 1)

\* if x { if y { z(); } } with the inner if expanded from a macro
HygieneExample ==
    Build(<<Level(PlainIf, "then"),
            Level([kind |-> "If", ctxt |-> MacroCtxt], "tail_call")>>, 1)

\* C5: after one pass over `if a {} else { if b {} else { if c {} } }` there
\* are exactly two findings, one per else-block holding only an if; in a
\* tree without macro-expanded code every else-block holding only an if has
\* its own finding, at every level of the chain.
C5_OneFindingPerLevel ==
    DoneCI =>
        /\ tree = ElseChainExample =>
              /\ Len(lints) = 2
              /\ lints[1].span = Span("else", 1, RootCtxt)
              /\ lints[2].span = Span("else", 2, RootCtxt)
        /\ NoMacro =>
              /\ SpansOf(ElseLints) = CollapsibleElseBlocks
              /\ Len(ElseLints) = Cardinality(CollapsibleElseBlocks)

\* Witness of C5: the pass over the three-level else chain ended with two
\* findings.
C5_Witness == DoneCI /\ tree = ElseChainExample /\ Len(lints) = 2

\* The node has the shape of sub-case (b): an If without else whose
\* then-block holds exactly one statement, an If without else.
NestedShape(e) ==
    /\ e.node = "If" /\ ~e.els.some
    /\ Len(e.then.stmts) = 1
    /\ e.then.stmts[1].node \in {"Expr", "Semi"}
    /\ e.then.stmts[1].expr.node = "If"
    /\ ~e.then.stmts[1].expr.els.some

\* C6: when the outer and the inner if of sub-case (b) have different
\* macro-expansion contexts, check_collapsible_no_if_let emits nothing and
\* no finding or suggestion is reported at the outer if.
C6_HygieneBoundary ==
    DoneCI =>
        LET v == Visited IN
        \A n \in 1..Len(v) :
            LET e == v[n] IN
            (NestedShape(e) /\ e.span.ctxt # e.then.stmts[1].expr.span.ctxt) =>
                /\ check_collapsible_no_if_let(e, e.check, e.then) = <<>>
                /\ \A k \in 1..Len(lints) :
                      lints[k].span # e.span /\ lints[k].sugg.span # e.span

\* Witness of C6: the pass over `if x { if y { z(); } }` whose inner if
\* comes from a macro ended without finding.
C6_Witness == DoneCI /\ tree = HygieneExample /\ lints = <<>>

\* C7: a finding of sub-case (b) is at an If without else, outside macros,
\* whose then-block holds exactly one statement, an If without else; its
\* suggestion replaces the whole outer if by `if <outer && inner> <inner
\* then-block>` and is MachineApplicable; `if x { if y { z(); } }` gives
\* the one suggestion `if x && y { z(); }`.
C7_NestedIfFinding ==
    /\ LET v == Visited
           ls == NestedLints
       IN
       \A k \in 1..Len(ls) :
          LET l == ls[k] IN
          \E n \in 1..Len(v) :
              LET e == v[n] IN
              /\ e.span = l.span
              /\ ~e.span.expanded
              /\ NestedShape(e)
              /\ l.sugg.span = e.span
              /\ l.sugg.text =
                    "if " \o SuggAnd(SuggAst(e.check), SuggAst(e.then.stmts[1].expr.check))
                    \o " " \o BlockText(e.then.stmts[1].expr.then)
              /\ l.sugg.applicability = "MachineApplicable"
    /\ (DoneCI /\ tree = NestedExample) =>
          /\ Len(lints) = 1
          /\ lints[1].span = Span("if", 1, RootCtxt)
          /\ lints[1].sugg.span = Span("if", 1, RootCtxt)
          /\ lints[1].sugg.text = "if x && y { z(); }"
          /\ lints[1].sugg.applicability = "MachineApplicable"

\* Witness of C7: the pass over `if x { if y { z(); } }` ended with the
\* suggestion `if x && y { z(); }`.
C7_Witness ==
    /\ DoneCI /\ tree = NestedExample
    /\ Len(lints) = 1 /\ lints[1].sugg.text = "if x && y { z(); }"

\* The else branch is a block of exactly one statement, an expression that
\* is an if or if-let outside macro-expanded code.
ElseShape(b) ==
    /\ b.node = "Block"
    /\ HoldsOnlyAnIf(b.block)
    /\ ~b.block.stmts[1].expr.span.expanded

\* C8: check_expr on an If or IfLet outside macros that has an else branch
\* emits a finding exactly when the else branch is a block of one statement,
\* an expression that is an If or IfLet outside macros; the finding replaces
\* the whole else-block by the source text of the inner if, so
\* `if x {} else { if y { z(); } }` gives `if y { z(); }`, and an
\* `else if` gives nothing at that node.
C8_ElseIfFinding ==
    [][ (pass = "ci" /\ pending # <<>>) =>
          LET e == Head(pending)
              emitted == SubSeq(lints', Len(lints) + 1, Len(lints'))
          IN  (e.node \in {"If", "IfLet"} /\ ~e.span.expanded /\ e.els.some) =>
                /\ (emitted # <<>>) <=> ElseShape(e.els.val)
                /\ emitted # <<>> =>
                      /\ Len(emitted) = 1
                      /\ emitted[1].span = e.els.val.span
                      /\ emitted[1].sugg.span = e.els.val.span
                      /\ emitted[1].sugg.text = SourceText(e.els.val.block.stmts[1].expr)
                /\ e.els.val.node \in {"If", "IfLet"} => emitted = <<>>
                /\ e = ElseExample =>
                      /\ Len(emitted) = 1
                      /\ emitted[1].sugg.text = "if y { z(); }"
      ]_vars

\* Witness of C8: the pass over `if x {} else { if y { z(); } }` ended with
\* one finding that replaces the else-block by `if y { z(); }`.
C8_Witness ==
    /\ DoneCI /\ tree = ElseExample
    /\ Len(lints) = 1
    /\ lints[1].span = Span("else", 1, RootCtxt)
    /\ lints[1].sugg.text = "if y { z(); }"

====
